---- MODULE Spec2Model ----
(***************************************************************************)
(* Model of yahoo_proxy.py: a Flask proxy that serves quotes for symbols   *)
(* from a module-global, time-bounded cache and fetches from yfinance on a  *)
(* miss.  Handlers: get_yahoo_data, get_bulk_yahoo_data, get_nifty_data,     *)
(* health_check.  A handler blocks only in the upstream fetch              *)
(* (ticker.info / ticker.history); the model splits a handler at exactly    *)
(* that point, so that the clock can advance while the fetch is running.    *)
(* Strings that the code parses (the symbols query parameter) are          *)
(* sequences of one-character strings; symbols, messages and cache keys    *)
(* are strings.  Closing prices are small integers standing for floats.    *)
(***************************************************************************)
EXTENDS Integers, Sequences, FiniteSets, TLC

VARIABLES cache, now, req, h, nlk, trace, fetched, resp, everCached, nreq, calc, threads, written

vars == <<cache, now, req, h, nlk, trace, fetched, resp, everCached, nreq, calc, threads, written>>

(***************************************************************************)
(* Program constants and bounds                                            *)
(***************************************************************************)
CACHE_DURATION == 60

MaxNow == 60
MaxRequests == 2
MaxLookups == 2
MaxLen == 3
MaxPrice == 3
MaxConcRequests == 3

PyNone == [none |-> TRUE]
NIFTY == "^NSEI"

Deltas == {CACHE_DURATION - 1, CACHE_DURATION}

(***************************************************************************)
(* Python string operations used by the bulk handler                       *)
(***************************************************************************)
RECURSIVE Str(_)
Str(cs) == IF cs = <<>> THEN "" ELSE Head(cs) \o Str(Tail(cs))

RECURSIVE LStrip(_)
LStrip(cs) == IF cs # <<>> /\ Head(cs) = " " THEN LStrip(Tail(cs)) ELSE cs

RECURSIVE RStrip(_)
RStrip(cs) ==
    IF cs # <<>> /\ cs[Len(cs)] = " " THEN RStrip(SubSeq(cs, 1, Len(cs) - 1)) ELSE cs

Strip(cs) == RStrip(LStrip(cs))

RECURSIVE SplitAcc(_, _)
SplitAcc(cs, cur) ==
    IF cs = <<>> THEN <<cur>>
    ELSE IF Head(cs) = "," THEN <<cur>> \o SplitAcc(Tail(cs), <<>>)
    ELSE SplitAcc(Tail(cs), Append(cur, Head(cs)))

Split(cs) == SplitAcc(cs, <<>>)

ParseSymbols(cs) == [i \in 1..Len(Split(cs)) |-> Str(Strip(Split(cs)[i]))]

ArgsGet(args, key, default) == IF key \in DOMAIN args THEN args[key] ELSE default

(***************************************************************************)
(* Python floats of the quote arithmetic.  Prices are integers (every      *)
(* integer of the model is a float exactly, and so is a difference of      *)
(* two).  A quotient is an IEEE-754 double: sign s, exponent e and a       *)
(* mantissa m of MantissaBits bits, value s * m * 2^e; m is a sequence of  *)
(* digits of DigitBits bits each, most significant first, without leading  *)
(* zero digits.  Every operation rounds to nearest, ties to even, as the   *)
(* hardware does.  Exponents stay far from the ends of the range.          *)
(***************************************************************************)
MantissaBits == 53

DigitBits == 15

Abs(n) == IF n < 0 THEN -n ELSE n

Sign(n) == IF n < 0 THEN -1 ELSE IF n > 0 THEN 1 ELSE 0

RECURSIVE Pow2(_)
Pow2(n) == IF n = 0 THEN 1 ELSE 2 * Pow2(n - 1)

RECURSIVE BitLen(_)
BitLen(n) == IF n = 0 THEN 0 ELSE 1 + BitLen(n \div 2)

Base == Pow2(DigitBits)

FloatZero == [s |-> 0, e |-> 0, m |-> <<>>]

RECURSIVE Digits(_)
Digits(n) == IF n = 0 THEN <<>> ELSE Append(Digits(n \div Base), n % Base)

RECURSIVE StripDigits(_)
StripDigits(ds) == IF ds # <<>> /\ Head(ds) = 0 THEN StripDigits(Tail(ds)) ELSE ds

\* the digits of ds * k + carry
RECURSIVE MulDigits(_, _, _)
MulDigits(ds, k, carry) ==
    IF ds = <<>> THEN Digits(carry)
    ELSE Append(MulDigits(SubSeq(ds, 1, Len(ds) - 1), k, (ds[Len(ds)] * k + carry) \div Base),
                (ds[Len(ds)] * k + carry) % Base)

\* <<digits of the quotient, remainder>> of (r * Base^Len(ds) + ds) divided by k
RECURSIVE DivDigits(_, _, _)
DivDigits(ds, k, r) ==
    IF ds = <<>> THEN <<<<>>, r>>
    ELSE LET rec == DivDigits(Tail(ds), k, (r * Base + Head(ds)) % k)
         IN  <<(<<(r * Base + Head(ds)) \div k>>) \o rec[1], rec[2]>>

NumBits(ds) == IF ds = <<>> THEN 0 ELSE (Len(ds) - 1) * DigitBits + BitLen(ds[1])

RECURSIVE ShiftLeft(_, _)
ShiftLeft(ds, n) ==
    IF n >= DigitBits THEN ShiftLeft(Append(ds, 0), n - DigitBits)
    ELSE StripDigits(MulDigits(ds, Pow2(n), 0))

\* the double nearest to s * x * 2^e, where x is ds if sticky is false and lies
\* strictly between ds and ds + 1 if sticky is true
RoundFloat(s, ds, sticky, e) ==
    LET d == NumBits(ds) - MantissaBits
    IN  IF d <= 0
        THEN [s |-> s, e |-> e + d, m |-> ShiftLeft(ds, -d)]
        ELSE LET qr == DivDigits(ds, Pow2(d), 0)
                 half == Pow2(d - 1)
                 q == StripDigits(qr[1])
                 up == /\ qr[2] >= half
                       /\ (qr[2] > half \/ sticky \/ q[Len(q)] % 2 = 1)
                 q1 == IF up THEN StripDigits(MulDigits(q, 1, 1)) ELSE q
             IN  IF NumBits(q1) > MantissaBits
                 THEN [s |-> s, e |-> e + d + 1, m |-> StripDigits(DivDigits(q1, 2, 0)[1])]
                 ELSE [s |-> s, e |-> e + d, m |-> q1]

\* float(n)
FromInt(n) == IF n = 0 THEN FloatZero ELSE RoundFloat(Sign(n), Digits(Abs(n)), FALSE, 0)

\* f / k for a float f and a non-zero integer k
FloatDiv(f, k) ==
    IF f.s = 0 THEN FloatZero
    ELSE LET extra == BitLen(Abs(k)) + 2
             qr == DivDigits(ShiftLeft(f.m, extra), Abs(k), 0)
         IN  RoundFloat(f.s * Sign(k), StripDigits(qr[1]), qr[2] # 0, f.e - extra)

\* f * k for a float f and an integer k
FloatMul(f, k) ==
    IF f.s = 0 \/ k = 0 THEN FloatZero
    ELSE RoundFloat(f.s * Sign(k), StripDigits(MulDigits(f.m, Abs(k), 0)), FALSE, f.e)

(***************************************************************************)
(* The upstream collaborator (yfinance): ticker.info and ticker.history    *)
(***************************************************************************)
Num(v) == [num |-> v]

InfoGet(info, key, default) == IF key \in DOMAIN info THEN info[key] ELSE default

Truthy(v) == v # PyNone /\ v # Num(0)

Raise(detail) == [kind |-> "raise", detail |-> detail, info |-> <<>>, hist |-> <<>>]

Ok(info, hist) == [kind |-> "ok", detail |-> "", info |-> info, hist |-> hist]

NoFetch == [kind |-> "none", detail |-> "", info |-> <<>>, hist |-> <<>>]

Hists == UNION {[1..n -> 1..MaxPrice] : n \in 0..2}

PrevCloses == {PyNone} \cup {Num(v) : v \in 0..MaxPrice}

Infos ==
    UNION { { [previousClose |-> pc, currency |-> "USD", shortName |-> "Name", longName |-> "Long Name"],
              [previousClose |-> pc, shortName |-> "Name"],
              [previousClose |-> pc] } : pc \in PrevCloses }
    \cup { [currency |-> "USD"], <<>> }

RichInfo == [previousClose |-> Num(1), currency |-> "USD", shortName |-> "Name", longName |-> "Long Name"]

Upstream == {Raise("timeout"), Ok(<<>>, <<>>), Ok(<<>>, <<2>>), Ok(RichInfo, <<1, 2>>)}

(***************************************************************************)
(* The cache                                                               *)
(***************************************************************************)
\* mutants of is_cache_valid: the window one second short, and the window closed at the end
is_cache_valid_short(timestamp) == now - timestamp < CACHE_DURATION - 1

is_cache_valid_inclusive(timestamp) == now - timestamp <= CACHE_DURATION

is_cache_valid(timestamp) == now - timestamp < CACHE_DURATION

CacheHit(symbol) == symbol \in DOMAIN cache /\ is_cache_valid(cache[symbol].timestamp)

\* mutant of CachePut: a put that also evicts the expired entries
CachePut_evict(symbol, data) ==
    [s \in {x \in DOMAIN cache : is_cache_valid(cache[x].timestamp)} \cup {symbol} |->
        IF s = symbol THEN [data |-> data, timestamp |-> now] ELSE cache[s]]

CachePut(symbol, data) ==
    [s \in DOMAIN cache \cup {symbol} |->
        IF s = symbol THEN [data |-> data, timestamp |-> now] ELSE cache[s]]

(***************************************************************************)
(* Quote arithmetic of the single-symbol path                              *)
(***************************************************************************)
\* mutant of SinglePreviousClose: a reported 0 is taken for a missing value
SinglePreviousClose_falsy(info, hist) ==
    LET current_price == hist[Len(hist)]
        previous_close == InfoGet(info, "previousClose", PyNone)
    IN  IF ~Truthy(previous_close) /\ Len(hist) > 1 THEN hist[Len(hist) - 1]
        ELSE IF ~Truthy(previous_close) THEN current_price
        ELSE previous_close.num

SinglePreviousClose(info, hist) ==
    LET current_price == hist[Len(hist)]
        previous_close == InfoGet(info, "previousClose", PyNone)
    IN  IF previous_close = PyNone /\ Len(hist) > 1 THEN hist[Len(hist) - 1]
        ELSE IF previous_close = PyNone THEN current_price
        ELSE previous_close.num

ChangePercent(change, previous_close) ==
    IF previous_close # 0 THEN FloatMul(FloatDiv(FromInt(change), previous_close), 100) ELSE FloatZero

SingleQuote(info, hist) ==
    LET current_price == hist[Len(hist)]
        previous_close == SinglePreviousClose(info, hist)
        change == current_price - previous_close
    IN  [regularMarketPrice |-> current_price,
         previousClose |-> previous_close,
         regularMarketChange |-> change,
         regularMarketChangePercent |-> FloatDiv(ChangePercent(change, previous_close), 100)]

SingleEnvelope(symbol, info, hist) ==
    LET q == SingleQuote(info, hist)
    IN  [chart |->
          [result |-> << [meta |->
             [currency |-> InfoGet(info, "currency", "INR"),
              symbol |-> symbol,
              regularMarketPrice |-> q.regularMarketPrice,
              previousClose |-> q.previousClose,
              regularMarketChange |-> q.regularMarketChange,
              regularMarketChangePercent |-> q.regularMarketChangePercent,
              regularMarketTime |-> now,
              shortName |-> InfoGet(info, "shortName", symbol),
              longName |-> InfoGet(info, "longName", symbol)]] >>,
           error |-> PyNone]]

(***************************************************************************)
(* Quote arithmetic of the bulk path                                       *)
(***************************************************************************)
BulkPreviousClose(info, hist) ==
    LET current_price == hist[Len(hist)]
        previous_close == InfoGet(info, "previousClose", Num(current_price))
    IN  IF previous_close # Num(current_price) /\ Len(hist) > 1 THEN hist[Len(hist) - 1]
        ELSE IF Truthy(previous_close) THEN previous_close.num
        ELSE current_price

BulkQuote(info, hist) ==
    LET current_price == hist[Len(hist)]
        previous_close == BulkPreviousClose(info, hist)
        change == current_price - previous_close
    IN  [regularMarketPrice |-> current_price,
         previousClose |-> previous_close,
         regularMarketChange |-> change,
         regularMarketChangePercent |-> FloatDiv(ChangePercent(change, previous_close), 100)]

BulkEnvelope(symbol, info, hist) ==
    LET q == BulkQuote(info, hist)
    IN  [chart |->
          [result |-> << [meta |->
             [symbol |-> symbol,
              regularMarketPrice |-> q.regularMarketPrice,
              previousClose |-> q.previousClose,
              regularMarketChange |-> q.regularMarketChange,
              regularMarketChangePercent |-> q.regularMarketChangePercent,
              shortName |-> InfoGet(info, "shortName", symbol)]] >>]]

(***************************************************************************)
(* State                                                                   *)
(*   cache       the module-global dict: symbol -> [data, timestamp]       *)
(*   now         datetime.now(), in seconds                                *)
(*   req, resp   the request being served and its response (status 0 while *)
(*               the handler is running)                                   *)
(*   h           the running handler: its position, the parsed symbols,    *)
(*               the loop index and the results dict of the bulk handler   *)
(*   trace       the lookups of the current request, each with the result  *)
(*               the upstream gave it (NoFetch while none has returned)    *)
(*   fetched     the symbols for which the current request invoked the     *)
(*               upstream, in order                                        *)
(*   nlk, nreq   number of lookups and of requests so far                  *)
(*   everCached  the symbols for which a cache entry was ever written      *)
(*   calc        input and results of the quote arithmetic (SpecCalc)      *)
(*   threads     the handlers that run at the same time, one per thread of  *)
(*               the server (SpecConc)                                      *)
(*   written     the symbols of the cache writes so far, in order           *)
(*               (SpecConc)                                                 *)
(***************************************************************************)
Idle == [pc |-> "idle", symbols |-> <<>>, i |-> 0, results |-> <<>>]

NoResp == [status |-> 0, body |-> PyNone]

NoCalc == [phase |-> "off"]

NoThreads == <<>>

PathSymbols == {"A", "B", NIFTY}

Alphabet == {"A", "B", ",", " "}

NoArgs == <<>>

Range(f) == {f[i] : i \in DOMAIN f}

Params ==
    {cs \in UNION {[1..n -> Alphabet] : n \in 0..MaxLen} :
        Range(ParseSymbols(cs)) \subseteq PathSymbols \cup {""}}

Init ==
    /\ cache = <<>>
    /\ now = 0
    /\ req = [route |-> "none", arg |-> ""]
    /\ h = Idle
    /\ nlk = 0
    /\ trace = <<>>
    /\ fetched = <<>>
    /\ resp = NoResp
    /\ everCached = {}
    /\ nreq = 0
    /\ calc = NoCalc
    /\ threads = NoThreads
    /\ written = <<>>

(***************************************************************************)
(* The clock: time passes between requests and while a fetch is running;   *)
(* the handlers' own code runs in far less than a second                   *)
(***************************************************************************)
Tick(d) ==
    /\ h.pc \in {"idle", "fetch"}
    /\ now + d <= MaxNow
    /\ now' = now + d
    /\ UNCHANGED <<cache, req, h, nlk, trace, fetched, resp, everCached, nreq, calc, threads, written>>

(***************************************************************************)
(* Responses of the handlers                                               *)
(***************************************************************************)
Respond(status, body) == [status |-> status, body |-> body]

\* mutant of SingleNotFound: the message of the bulk path
SingleNotFound_bulkmsg(symbol) == Respond(404, [error |-> "No data for " \o symbol])

SingleNotFound(symbol) == Respond(404, [error |-> "No data available for symbol " \o symbol])

\* mutant of SingleError: the bare exception text, as the bulk path reports it
SingleError_bare(symbol, detail) == Respond(500, [error |-> detail])

SingleError(symbol, detail) ==
    Respond(500, [error |-> "Error fetching data for " \o symbol \o ": " \o detail])

BulkNoSymbols == Respond(400, [error |-> "No symbols provided"])

BulkNoData(symbol) == [error |-> "No data for " \o symbol]

BulkError(detail) == [error |-> detail]

(***************************************************************************)
(* get_yahoo_data(symbol), up to the upstream call                         *)
(***************************************************************************)
get_yahoo_data(route, symbol) ==
    /\ h.pc = "idle"
    /\ nreq < MaxRequests
    /\ nlk < MaxLookups
    /\ nreq' = nreq + 1
    /\ req' = [route |-> route, arg |-> symbol]
    /\ nlk' = nlk + 1
    /\ trace' = <<[sym |-> symbol, up |-> NoFetch]>>
    /\ IF CacheHit(symbol)
       THEN /\ resp' = Respond(200, cache[symbol].data)
            /\ h' = Idle
            /\ fetched' = <<>>
       ELSE /\ resp' = NoResp
            /\ h' = [pc |-> "fetch", symbols |-> <<symbol>>, i |-> 1, results |-> <<>>]
            /\ fetched' = <<symbol>>
    /\ UNCHANGED <<cache, now, everCached, calc, threads, written>>

SingleRequest(symbol) == get_yahoo_data("single", symbol)

\* mutant of get_nifty_data: the symbol without its caret
get_nifty_data_plain == get_yahoo_data("nifty", "NSEI")

get_nifty_data == get_yahoo_data("nifty", NIFTY)

(***************************************************************************)
(* get_yahoo_data(symbol), from the return of the upstream call            *)
(***************************************************************************)
SetUp(tr, up) == [tr EXCEPT ![Len(tr)].up = up]

\* mutant of SingleFetchReturn: a failed refresh drops the entry of the symbol
SingleFetchReturn_drop(up) ==
    /\ h.pc = "fetch"
    /\ req.route \in {"single", "nifty"}
    /\ LET symbol == h.symbols[1]
           dropped == [s \in DOMAIN cache \ {symbol} |-> cache[s]]
       IN  IF up.kind = "raise"
           THEN /\ resp' = SingleError(symbol, up.detail)
                /\ cache' = dropped
                /\ UNCHANGED everCached
           ELSE IF up.hist = <<>>
           THEN /\ resp' = SingleNotFound(symbol)
                /\ cache' = dropped
                /\ UNCHANGED everCached
           ELSE LET response_data == SingleEnvelope(symbol, up.info, up.hist)
                IN  /\ cache' = CachePut(symbol, response_data)
                    /\ everCached' = everCached \cup {symbol}
                    /\ resp' = Respond(200, response_data)
    /\ h' = Idle
    /\ trace' = SetUp(trace, up)
    /\ UNCHANGED <<now, req, nlk, fetched, nreq, calc, threads, written>>

SingleFetchReturn(up) ==
    /\ h.pc = "fetch"
    /\ req.route \in {"single", "nifty"}
    /\ LET symbol == h.symbols[1]
       IN  IF up.kind = "raise"
           THEN /\ resp' = SingleError(symbol, up.detail)
                /\ UNCHANGED <<cache, everCached>>
           ELSE IF up.hist = <<>>
           THEN /\ resp' = SingleNotFound(symbol)
                /\ UNCHANGED <<cache, everCached>>
           ELSE LET response_data == SingleEnvelope(symbol, up.info, up.hist)
                IN  /\ cache' = CachePut(symbol, response_data)
                    /\ everCached' = everCached \cup {symbol}
                    /\ resp' = Respond(200, response_data)
    /\ h' = Idle
    /\ trace' = SetUp(trace, up)
    /\ UNCHANGED <<now, req, nlk, fetched, nreq, calc, threads, written>>

(***************************************************************************)
(* get_bulk_yahoo_data                                                     *)
(***************************************************************************)
\* mutant of NoSymbolsProvided: the emptiness check left out
NoSymbolsProvided_never(symbols_param) == FALSE

NoSymbolsProvided(symbols_param) == symbols_param = <<>>

BulkRequest(args) ==
    /\ h.pc = "idle"
    /\ nreq < MaxRequests
    /\ ArgsGet(args, "symbols", <<>>) # <<>> =>
           nlk + Len(Split(ArgsGet(args, "symbols", <<>>))) <= MaxLookups
    /\ nreq' = nreq + 1
    /\ req' = [route |-> "bulk", arg |-> args]
    /\ fetched' = <<>>
    /\ trace' = <<>>
    /\ LET symbols_param == ArgsGet(args, "symbols", <<>>)
       IN  IF NoSymbolsProvided(symbols_param)
           THEN /\ resp' = BulkNoSymbols
                /\ h' = Idle
           ELSE /\ resp' = NoResp
                /\ h' = [pc |-> "loop", symbols |-> ParseSymbols(symbols_param), i |-> 1, results |-> <<>>]
    /\ UNCHANGED <<cache, now, nlk, everCached, calc, threads, written>>

\* mutant of SetResult: the first result of a symbol is kept
SetResult_first(results, symbol, value) ==
    [s \in DOMAIN results \cup {symbol} |->
        IF s \in DOMAIN results THEN results[s] ELSE value]

SetResult(results, symbol, value) ==
    [s \in DOMAIN results \cup {symbol} |-> IF s = symbol THEN value ELSE results[s]]

BulkLookup ==
    /\ h.pc = "loop"
    /\ h.i <= Len(h.symbols)
    /\ LET symbol == h.symbols[h.i]
       IN  /\ nlk' = nlk + 1
           /\ trace' = Append(trace, [sym |-> symbol, up |-> NoFetch])
           /\ IF CacheHit(symbol)
              THEN /\ h' = [h EXCEPT !.results = SetResult(h.results, symbol, cache[symbol].data),
                                     !.i = h.i + 1]
                   /\ UNCHANGED fetched
              ELSE /\ h' = [h EXCEPT !.pc = "fetch"]
                   /\ fetched' = Append(fetched, symbol)
    /\ UNCHANGED <<cache, now, req, resp, everCached, nreq, calc, threads, written>>

\* mutant of BulkFetchReturn: no inner try, an exception ends the whole request with 500
BulkFetchReturn_abort(up) ==
    /\ h.pc = "fetch"
    /\ req.route = "bulk"
    /\ LET symbol == h.symbols[h.i]
       IN  IF up.kind = "raise"
           THEN /\ h' = Idle
                /\ resp' = Respond(500, [error |-> up.detail])
                /\ UNCHANGED <<cache, everCached>>
           ELSE IF up.hist = <<>>
           THEN /\ h' = [h EXCEPT !.results = SetResult(h.results, symbol, BulkNoData(symbol)),
                                  !.i = h.i + 1, !.pc = "loop"]
                /\ UNCHANGED <<cache, everCached, resp>>
           ELSE LET response_data == BulkEnvelope(symbol, up.info, up.hist)
                IN  /\ cache' = CachePut(symbol, response_data)
                    /\ everCached' = everCached \cup {symbol}
                    /\ h' = [h EXCEPT !.results = SetResult(h.results, symbol, response_data),
                                      !.i = h.i + 1, !.pc = "loop"]
                    /\ UNCHANGED resp
    /\ trace' = SetUp(trace, up)
    /\ UNCHANGED <<now, req, nlk, fetched, nreq, calc, threads, written>>

BulkFetchReturn(up) ==
    /\ h.pc = "fetch"
    /\ req.route = "bulk"
    /\ LET symbol == h.symbols[h.i]
       IN  IF up.kind = "raise"
           THEN /\ h' = [h EXCEPT !.results = SetResult(h.results, symbol, BulkError(up.detail)),
                                  !.i = h.i + 1, !.pc = "loop"]
                /\ UNCHANGED <<cache, everCached>>
           ELSE IF up.hist = <<>>
           THEN /\ h' = [h EXCEPT !.results = SetResult(h.results, symbol, BulkNoData(symbol)),
                                  !.i = h.i + 1, !.pc = "loop"]
                /\ UNCHANGED <<cache, everCached>>
           ELSE LET response_data == BulkEnvelope(symbol, up.info, up.hist)
                IN  /\ cache' = CachePut(symbol, response_data)
                    /\ everCached' = everCached \cup {symbol}
                    /\ h' = [h EXCEPT !.results = SetResult(h.results, symbol, response_data),
                                      !.i = h.i + 1, !.pc = "loop"]
    /\ trace' = SetUp(trace, up)
    /\ UNCHANGED <<now, req, nlk, fetched, resp, nreq, calc, threads, written>>

BulkReturn ==
    /\ h.pc = "loop"
    /\ h.i > Len(h.symbols)
    /\ resp' = Respond(200, h.results)
    /\ h' = Idle
    /\ UNCHANGED <<cache, now, req, nlk, trace, fetched, everCached, nreq, calc, threads, written>>

(***************************************************************************)
(* health_check                                                            *)
(***************************************************************************)
health_check ==
    /\ h.pc = "idle"
    /\ nreq < MaxRequests
    /\ nreq' = nreq + 1
    /\ req' = [route |-> "health", arg |-> ""]
    /\ resp' = Respond(200, [status |-> "healthy", timestamp |-> now,
                             cache_size |-> Cardinality(DOMAIN cache)])
    /\ fetched' = <<>>
    /\ trace' = <<>>
    /\ UNCHANGED <<cache, now, h, nlk, everCached, calc, threads, written>>

Next ==
    \/ \E d \in Deltas : Tick(d)
    \/ \E symbol \in PathSymbols : SingleRequest(symbol)
    \/ get_nifty_data
    \/ \E up \in Upstream : SingleFetchReturn(up)
    \/ BulkRequest(NoArgs)
    \/ \E param \in Params : BulkRequest([symbols |-> param])
    \/ BulkLookup
    \/ \E up \in Upstream : BulkFetchReturn(up)
    \/ BulkReturn
    \/ health_check

Spec == Init /\ [][Next]_vars

(***************************************************************************)
(* The quote arithmetic on its own: the state starts with one upstream     *)
(* result that has at least one price point, and Compute applies the       *)
(* arithmetic of both paths to it.                                         *)
(***************************************************************************)
InitCalc ==
    /\ cache = <<>>
    /\ now = 0
    /\ req = [route |-> "none", arg |-> ""]
    /\ h = Idle
    /\ nlk = 0
    /\ trace = <<>>
    /\ fetched = <<>>
    /\ resp = NoResp
    /\ everCached = {}
    /\ nreq = 0
    /\ threads = NoThreads
    /\ written = <<>>
    /\ \E info \in Infos, hist \in Hists \ {<<>>} :
           calc = [phase |-> "in", info |-> info, hist |-> hist]

Compute ==
    /\ calc.phase = "in"
    /\ calc' = [phase |-> "out", info |-> calc.info, hist |-> calc.hist,
                single |-> SingleQuote(calc.info, calc.hist),
                bulk |-> BulkQuote(calc.info, calc.hist)]
    /\ UNCHANGED <<cache, now, req, h, nlk, trace, fetched, resp, everCached, nreq, threads, written>>

NextCalc == Compute

SpecCalc == InitCalc /\ [][NextCalc]_vars

(***************************************************************************)
(* Handlers that run at the same time.  app.run serves every request in a  *)
(* thread of its own, and the threads share the module-global cache        *)
(* without a lock.  The interpreter may switch threads between any two     *)
(* accesses to the cache, so a handler is split at each of them:           *)
(*   check   symbol in cache and is_cache_valid(cache[symbol]['timestamp'])*)
(*   read    cache[symbol]['data'], a second subscript of the cache        *)
(*   fetch   the upstream call                                             *)
(*   stamp   datetime.now() of the new entry                               *)
(*   store   cache[symbol] = {...}                                         *)
(* A thread serves a single-symbol request or a bulk request for one       *)
(* symbol.  checked and served are the numbers of the entry (1 for the     *)
(* first write of the symbol, 2 for the second, ..) that the validity      *)
(* check and the data read saw.                                            *)
(***************************************************************************)
Threads == {"t1", "t2"}

ConcRoutes == {"single", "bulk"}

ConcSymbols == {"A", "B"}

IdleThread ==
    [pc |-> "idle", route |-> "none", symbol |-> "", checked |-> 0, served |-> 0,
     data |-> PyNone, timestamp |-> 0, resp |-> NoResp]

RECURSIVE Count(_, _)
Count(seq, x) ==
    IF seq = <<>> THEN 0
    ELSE (IF Head(seq) = x THEN 1 ELSE 0) + Count(Tail(seq), x)

\* the number of the entry that cache[symbol] is now
EntryId(symbol) == Count(written, symbol)

\* the body of a response with one value for symbol
ConcBody(route, symbol, value) ==
    IF route = "single" THEN value ELSE SetResult(<<>>, symbol, value)

InitConc ==
    /\ cache = <<>>
    /\ now = 0
    /\ req = [route |-> "none", arg |-> ""]
    /\ h = Idle
    /\ nlk = 0
    /\ trace = <<>>
    /\ fetched = <<>>
    /\ resp = NoResp
    /\ everCached = {}
    /\ nreq = 0
    /\ calc = NoCalc
    /\ threads = [t \in Threads |-> IdleThread]
    /\ written = <<>>

ConcBegin(t, route, symbol) ==
    /\ threads[t].pc = "idle"
    /\ nreq < MaxConcRequests
    /\ nreq' = nreq + 1
    /\ threads' = [threads EXCEPT ![t] = [IdleThread EXCEPT !.pc = "check", !.route = route,
                                                            !.symbol = symbol]]
    /\ UNCHANGED <<cache, now, req, h, nlk, trace, fetched, resp, everCached, calc, written>>

ConcCheck(t) ==
    /\ threads[t].pc = "check"
    /\ LET symbol == threads[t].symbol
       IN  IF CacheHit(symbol)
           THEN threads' = [threads EXCEPT ![t].pc = "read", ![t].checked = EntryId(symbol)]
           ELSE threads' = [threads EXCEPT ![t].pc = "fetch"]
    /\ UNCHANGED <<cache, now, req, h, nlk, trace, fetched, resp, everCached, nreq, calc, written>>

ConcRead(t) ==
    /\ threads[t].pc = "read"
    /\ LET symbol == threads[t].symbol
           data == cache[symbol].data
       IN  threads' = [threads EXCEPT ![t].pc = "done", ![t].served = EntryId(symbol),
                                      ![t].data = data,
                                      ![t].resp = Respond(200, ConcBody(threads[t].route, symbol, data))]
    /\ UNCHANGED <<cache, now, req, h, nlk, trace, fetched, resp, everCached, nreq, calc, written>>

ConcFetchReturn(t, up) ==
    /\ threads[t].pc = "fetch"
    /\ LET symbol == threads[t].symbol
           route == threads[t].route
       IN  IF up.kind = "raise"
           THEN threads' = [threads EXCEPT ![t].pc = "done",
                               ![t].resp = IF route = "single" THEN SingleError(symbol, up.detail)
                                           ELSE Respond(200, ConcBody(route, symbol, BulkError(up.detail)))]
           ELSE IF up.hist = <<>>
           THEN threads' = [threads EXCEPT ![t].pc = "done",
                               ![t].resp = IF route = "single" THEN SingleNotFound(symbol)
                                           ELSE Respond(200, ConcBody(route, symbol, BulkNoData(symbol)))]
           ELSE threads' = [threads EXCEPT ![t].pc = "stamp",
                               ![t].data = IF route = "single"
                                           THEN SingleEnvelope(symbol, up.info, up.hist)
                                           ELSE BulkEnvelope(symbol, up.info, up.hist)]
    /\ UNCHANGED <<cache, now, req, h, nlk, trace, fetched, resp, everCached, nreq, calc, written>>

ConcStamp(t) ==
    /\ threads[t].pc = "stamp"
    /\ threads' = [threads EXCEPT ![t].pc = "store", ![t].timestamp = now]
    /\ UNCHANGED <<cache, now, req, h, nlk, trace, fetched, resp, everCached, nreq, calc, written>>

ConcStore(t) ==
    /\ threads[t].pc = "store"
    /\ LET symbol == threads[t].symbol
           data == threads[t].data
       IN  /\ cache' = [s \in DOMAIN cache \cup {symbol} |->
                           IF s = symbol THEN [data |-> data, timestamp |-> threads[t].timestamp]
                           ELSE cache[s]]
           /\ written' = Append(written, symbol)
           /\ everCached' = everCached \cup {symbol}
           /\ threads' = [threads EXCEPT ![t].pc = "done",
                             ![t].resp = Respond(200, ConcBody(threads[t].route, symbol, data))]
    /\ UNCHANGED <<now, req, h, nlk, trace, fetched, resp, nreq, calc>>

\* the response is sent and the thread takes the next request
ConcDone(t) ==
    /\ threads[t].pc = "done"
    /\ threads' = [threads EXCEPT ![t] = IdleThread]
    /\ UNCHANGED <<cache, now, req, h, nlk, trace, fetched, resp, everCached, nreq, calc, written>>

ConcTick(d) ==
    /\ now + d <= MaxNow
    /\ now' = now + d
    /\ UNCHANGED <<cache, req, h, nlk, trace, fetched, resp, everCached, nreq, calc, threads, written>>

NextConc ==
    \/ \E d \in Deltas : ConcTick(d)
    \/ \E t \in Threads, route \in ConcRoutes, symbol \in ConcSymbols : ConcBegin(t, route, symbol)
    \/ \E t \in Threads : ConcCheck(t)
    \/ \E t \in Threads : ConcRead(t)
    \/ \E t \in Threads, up \in Upstream : ConcFetchReturn(t, up)
    \/ \E t \in Threads : ConcStamp(t)
    \/ \E t \in Threads : ConcStore(t)
    \/ \E t \in Threads : ConcDone(t)

SpecConc == InitConc /\ [][NextConc]_vars

(***************************************************************************)
(* Vocabulary of the properties                                            *)
(***************************************************************************)
\* a step in which a handler looks a symbol up in the cache
LookupStep == nlk' = nlk + 1

\* the symbol that the lookup of this step is about
LookedUp == trace'[Len(trace')].sym

\* the cache holds an entry for S written less than CACHE_DURATION seconds ago
Fresh(S) == S \in DOMAIN cache /\ now - cache[S].timestamp < CACHE_DURATION

\* a step in which the upstream call of the running handler returns
FetchReturnStep == h.pc = "fetch" /\ h'.pc # "fetch"

IsEnvelope(v) == "chart" \in DOMAIN v

IsErrorObject(v) == DOMAIN v = {"error"}

(***************************************************************************)
(* C1  Cache-hit property: a lookup of S (single, nifty or one symbol of a *)
(* bulk request) made while the cache holds an entry for S younger than    *)
(* CACHE_DURATION returns exactly the cached data, does not invoke the     *)
(* upstream for S and leaves the cache unchanged.                          *)
(***************************************************************************)
CacheHitProperty ==
    [][ (LookupStep /\ Fresh(LookedUp)) =>
          /\ cache' = cache
          /\ h'.pc # "fetch"
          /\ IF req'.route = "bulk"
             THEN /\ fetched' = fetched
                  /\ LookedUp \in DOMAIN h'.results
                  /\ h'.results[LookedUp] = cache[LookedUp].data
             ELSE /\ fetched' = <<>>
                  /\ resp'.status = 200
                  /\ resp'.body = cache[LookedUp].data ]_vars

\* a bulk request was answered for "A" from an entry 59 seconds old, without any fetch
CacheHitWitness ==
    /\ req.route = "bulk"
    /\ resp.status = 200
    /\ fetched = <<>>
    /\ "A" \in DOMAIN resp.body
    /\ "A" \in DOMAIN cache
    /\ now - cache["A"].timestamp = CACHE_DURATION - 1
    /\ resp.body["A"] = cache["A"].data

(***************************************************************************)
(* C2  Expiry / no-retry property: a lookup of S made while S has no cache *)
(* entry, or an entry of age >= CACHE_DURATION (exactly CACHE_DURATION     *)
(* included), invokes the upstream for S exactly once: the lookup step     *)
(* invokes it, the step in which it returns (with data, with no data or by *)
(* raising) ends the lookup without another invocation, and no other step  *)
(* invokes it.                                                             *)
(***************************************************************************)
ExpiryProperty ==
    [][ /\ (LookupStep /\ ~Fresh(LookedUp)) =>
              /\ h'.pc = "fetch"
              /\ fetched' = Append(IF req'.route = "bulk" THEN fetched ELSE <<>>, LookedUp)
        /\ FetchReturnStep =>
              /\ fetched' = fetched
              /\ nlk' = nlk
              /\ IF req.route = "bulk" THEN h'.pc = "loop" /\ h'.i = h.i + 1 ELSE h'.pc = "idle"
        /\ ~LookupStep => Len(fetched') <= Len(fetched) ]_vars

\* the entry for "A" was exactly CACHE_DURATION old, the one fetch raised, and that was all
ExpiryWitness ==
    /\ req.route = "single"
    /\ req.arg = "A"
    /\ resp.status = 500
    /\ fetched = <<"A">>
    /\ "A" \in DOMAIN cache
    /\ now - cache["A"].timestamp = CACHE_DURATION

(***************************************************************************)
(* C3  Bulk failure isolation: a bulk request with a non-empty symbols     *)
(* parameter ends with status 200; every comma-separated element of the    *)
(* parameter was looked up; a symbol whose (last) fetch raised or returned *)
(* no price points has an error object, and every other symbol has its own *)
(* envelope or error object.                                               *)
(***************************************************************************)
Commas(cs) == Cardinality({i \in 1..Len(cs) : cs[i] = ","})

LastLookup(i) == \A j \in (i + 1)..Len(trace) : trace[j].sym # trace[i].sym

BulkIsolation ==
    (req.route = "bulk" /\ h.pc = "idle" /\ ArgsGet(req.arg, "symbols", <<>>) # <<>>) =>
        /\ resp.status = 200
        /\ Len(trace) = Commas(req.arg.symbols) + 1
        /\ \A i \in 1..Len(trace) :
              LET S == trace[i].sym
                  up == trace[i].up
              IN  /\ S \in DOMAIN resp.body
                  /\ LastLookup(i) =>
                        /\ up.kind = "raise" => resp.body[S] = [error |-> up.detail]
                        /\ (up.kind = "ok" /\ up.hist = <<>>) => IsErrorObject(resp.body[S])
                        /\ (up.kind = "ok" /\ up.hist # <<>>) =>
                              /\ IsEnvelope(resp.body[S])
                              /\ resp.body[S].chart.result[1].meta.symbol = S
                              /\ resp.body[S].chart.result[1].meta.regularMarketPrice
                                    = up.hist[Len(up.hist)]
                        /\ up.kind = "none" => IsEnvelope(resp.body[S])

\* "A,B": A's fetch returned data, B's raised; the response is 200 with both entries
BulkIsolationWitness ==
    /\ req.route = "bulk"
    /\ h.pc = "idle"
    /\ resp.status = 200
    /\ Len(trace) = 2
    /\ trace[1].sym = "A" /\ trace[1].up.kind = "ok" /\ trace[1].up.hist # <<>>
    /\ trace[2].sym = "B" /\ trace[2].up.kind = "raise"
    /\ IsEnvelope(resp.body["A"])
    /\ IsErrorObject(resp.body["B"])

(***************************************************************************)
(* C4  The bulk path computes the same previousClose, change and           *)
(* changeRatio as the single-symbol path for every upstream result with    *)
(* one or two price points.  (Stated as the claim; the code violates it.)  *)
(***************************************************************************)
BulkMatchesSingle ==
    calc.phase = "out" =>
        /\ calc.bulk.previousClose = calc.single.previousClose
        /\ calc.bulk.regularMarketChange = calc.single.regularMarketChange
        /\ calc.bulk.regularMarketChangePercent = calc.single.regularMarketChangePercent

(***************************************************************************)
(* C5  Every 200 response of the single-symbol path (single or nifty       *)
(* route) has the single-symbol envelope form: meta carries currency and   *)
(* the outer chart.error key is present with value null, also when the     *)
(* response is served from the shared cache.  (Stated as the claim; the    *)
(* code violates it.)                                                      *)
(***************************************************************************)
SingleEnvelopeForm ==
    (req.route \in {"single", "nifty"} /\ resp.status = 200) =>
        /\ IsEnvelope(resp.body)
        /\ "error" \in DOMAIN resp.body.chart
        /\ resp.body.chart.error = PyNone
        /\ "currency" \in DOMAIN resp.body.chart.result[1].meta

(***************************************************************************)
(* C6  Single-symbol not-found: when the upstream call of a single-symbol  *)
(* request for S returns zero price points, the request ends with 404 and  *)
(* body {error: "No data available for symbol S"}, and neither that step   *)
(* nor the lookup before it writes the cache.                              *)
(***************************************************************************)
SinglePath == {"single", "nifty"}

SingleNotFoundProperty ==
    [][ /\ (FetchReturnStep /\ req.route \in SinglePath
                /\ trace'[1].up.kind = "ok" /\ trace'[1].up.hist = <<>>) =>
              /\ resp'.status = 404
              /\ resp'.body = [error |-> "No data available for symbol " \o req.arg]
              /\ h'.pc = "idle"
              /\ cache' = cache
        /\ (LookupStep /\ req'.route \in SinglePath) => cache' = cache ]_vars

\* "A" had a stale entry, the fetch returned no price points: 404, and the entry is as it was
SingleNotFoundWitness ==
    /\ req.route = "single"
    /\ req.arg = "A"
    /\ resp.status = 404
    /\ trace[1].up.kind = "ok"
    /\ "A" \in DOMAIN cache
    /\ cache["A"].timestamp = 0
    /\ "B" \notin DOMAIN cache

(***************************************************************************)
(* C7  Single-symbol fetch failure: when the upstream call of a single or  *)
(* nifty request for S raises, the handler ends with 500 and body          *)
(* {error: "Error fetching data for S: <detail>"}; the handler is then     *)
(* idle, the cache is as before, and (while the model's bounds allow more  *)
(* requests) every kind of request can still be served.                    *)
(***************************************************************************)
SingleFetchFailure ==
    /\ [][ (FetchReturnStep /\ req.route \in SinglePath /\ trace'[1].up.kind = "raise") =>
              /\ resp'.status = 500
              /\ resp'.body = [error |-> "Error fetching data for " \o req.arg \o ": "
                                            \o trace'[1].up.detail]
              /\ h'.pc = "idle"
              /\ cache' = cache ]_vars
    /\ []( (resp.status = 500 /\ nreq < MaxRequests /\ nlk < MaxLookups) =>
              /\ \A symbol \in PathSymbols : ENABLED SingleRequest(symbol)
              /\ ENABLED get_nifty_data
              /\ ENABLED health_check
              /\ ENABLED BulkRequest([symbols |-> <<"A">>]) )

\* a nifty request ended with 500 and more requests are possible
SingleFetchFailureWitness ==
    /\ req.route = "nifty"
    /\ resp.status = 500
    /\ resp.body = [error |-> "Error fetching data for ^NSEI: timeout"]
    /\ nreq < MaxRequests
    /\ nlk < MaxLookups

(***************************************************************************)
(* C8  A bulk request whose symbols parameter is absent or empty is        *)
(* rejected with 400 and body {error: "No symbols provided"} in the step   *)
(* that receives it: nothing is looked up or fetched and the cache is      *)
(* unchanged.                                                              *)
(***************************************************************************)
RequestStep == nreq' = nreq + 1

EmptyBulkRejected ==
    [][ (RequestStep /\ req'.route = "bulk"
            /\ ("symbols" \notin DOMAIN req'.arg \/ req'.arg.symbols = <<>>)) =>
          /\ resp'.status = 400
          /\ resp'.body = [error |-> "No symbols provided"]
          /\ h'.pc = "idle"
          /\ fetched' = <<>>
          /\ nlk' = nlk
          /\ cache' = cache ]_vars

\* an empty symbols parameter was rejected while the cache held an expired entry
EmptyBulkRejectedWitness ==
    /\ req.route = "bulk"
    /\ "symbols" \in DOMAIN req.arg
    /\ req.arg.symbols = <<>>
    /\ resp.status = 400
    /\ fetched = <<>>
    /\ "A" \in DOMAIN cache
    /\ now - cache["A"].timestamp >= CACHE_DURATION

(***************************************************************************)
(* C9  The key set of a bulk result is exactly the set of distinct         *)
(* whitespace-trimmed comma-separated elements of the parameter, and the   *)
(* value under a key is the result of the last lookup of that symbol.      *)
(***************************************************************************)
\* <<a, b>> delimits a maximal comma-free stretch cs[a..b] (empty when b = a - 1)
Segments(cs) ==
    {ab \in (1..(Len(cs) + 1)) \X (0..Len(cs)) :
        /\ ab[2] >= ab[1] - 1
        /\ ab[1] = 1 \/ cs[ab[1] - 1] = ","
        /\ ab[2] = Len(cs) \/ cs[ab[2] + 1] = ","
        /\ \A k \in ab[1]..ab[2] : cs[k] # ","}

\* cs[a..b] without its leading and trailing blanks, as a string
Trimmed(cs, a, b) ==
    LET inner == {ij \in (a..(b + 1)) \X ((a - 1)..b) :
                     /\ ij[2] >= ij[1] - 1
                     /\ \A k \in a..(ij[1] - 1) : cs[k] = " "
                     /\ \A k \in (ij[2] + 1)..b : cs[k] = " "
                     /\ ij[1] <= ij[2] => (cs[ij[1]] # " " /\ cs[ij[2]] # " ")
                     /\ ij[1] > ij[2] => ij[1] = a}
        ij == CHOOSE x \in inner : TRUE
    IN  Str(SubSeq(cs, ij[1], ij[2]))

ExpectedKeys(cs) == {Trimmed(cs, ab[1], ab[2]) : ab \in Segments(cs)}

BulkKeys ==
    (req.route = "bulk" /\ resp.status = 200) =>
        /\ DOMAIN resp.body = ExpectedKeys(req.arg.symbols)
        /\ \A i \in 1..Len(trace) :
              LastLookup(i) =>
                 LET S == trace[i].sym
                     up == trace[i].up
                 IN  /\ up.kind = "raise" => resp.body[S] = [error |-> up.detail]
                     /\ (up.kind = "ok" /\ up.hist = <<>>) => IsErrorObject(resp.body[S])
                     /\ (up.kind = "ok" /\ up.hist # <<>>) =>
                           /\ IsEnvelope(resp.body[S])
                           /\ resp.body[S].chart.result[1].meta.regularMarketPrice
                                 = up.hist[Len(up.hist)]
                     /\ up.kind = "none" => IsEnvelope(resp.body[S])

\* "A,A": the first lookup of A raised, the second returned data; the one key A has the data
BulkKeysWitness ==
    /\ req.route = "bulk"
    /\ resp.status = 200
    /\ req.arg.symbols = <<"A", ",", "A">>
    /\ trace[1].up.kind = "raise"
    /\ trace[2].up.kind = "ok"
    /\ DOMAIN resp.body = {"A"}
    /\ IsEnvelope(resp.body["A"])

(***************************************************************************)
(* C10  The cache holds exactly the symbols ever cached, /health reports   *)
(* their number, no step removes an entry or lowers the number, and        *)
(* /health does not change the cache.                                      *)
(***************************************************************************)
CacheSizeProperty ==
    /\ [](/\ DOMAIN cache = everCached
          /\ req.route = "health" => resp.body.cache_size = Cardinality(everCached))
    /\ [][ /\ DOMAIN cache \subseteq DOMAIN cache'
           /\ Cardinality(DOMAIN cache') >= Cardinality(DOMAIN cache)
           /\ (RequestStep /\ req'.route = "health") => cache' = cache ]_vars

\* /health reported the two entries that a bulk request had written
CacheSizeWitness ==
    /\ req.route = "health"
    /\ resp.status = 200
    /\ resp.body.cache_size = 2
    /\ DOMAIN cache = {"A", "B"}

(***************************************************************************)
(* C11  Single-symbol path, successful fetch with at least one price       *)
(* point: previousClose is the metadata value when the metadata reports    *)
(* one (0 included); otherwise the second-most-recent close when there are *)
(* two points; otherwise the current price, and then change is 0.          *)
(***************************************************************************)
Reported(info) == "previousClose" \in DOMAIN info /\ info.previousClose # PyNone

PreviousCloseSelection ==
    calc.phase = "out" =>
        LET n == Len(calc.hist)
            q == calc.single
        IN  /\ Reported(calc.info) => q.previousClose = calc.info.previousClose.num
            /\ (~Reported(calc.info) /\ n >= 2) => q.previousClose = calc.hist[n - 1]
            /\ (~Reported(calc.info) /\ n < 2) =>
                   /\ q.previousClose = calc.hist[n]
                   /\ q.regularMarketChange = 0

\* the metadata reports 0, two different closes exist, and previousClose is the reported 0
PreviousCloseSelectionWitness ==
    /\ calc.phase = "out"
    /\ Reported(calc.info)
    /\ calc.info.previousClose = Num(0)
    /\ calc.hist = <<1, 2>>
    /\ calc.single.previousClose = 0
    /\ calc.single.regularMarketChange = 2

(***************************************************************************)
(* C12  Every quote of either path has change = currentPrice -             *)
(* previousClose, changeRatio = change / previousClose (the float          *)
(* quotient) when previousClose # 0, and changeRatio = 0 when              *)
(* previousClose = 0.  (Stated as the claim; the code violates it.)        *)
(***************************************************************************)
QuoteArithmetic(q) ==
    /\ q.regularMarketChange = q.regularMarketPrice - q.previousClose
    /\ q.previousClose # 0 =>
           q.regularMarketChangePercent = FloatDiv(FromInt(q.regularMarketChange), q.previousClose)
    /\ q.previousClose = 0 => q.regularMarketChangePercent = FloatZero

ChangeRatioProperty ==
    calc.phase = "out" => QuoteArithmetic(calc.single) /\ QuoteArithmetic(calc.bulk)

(***************************************************************************)
(* C13  Every successful per-symbol envelope of a bulk response omits the  *)
(* outer chart.error key, whether freshly fetched or served from the       *)
(* shared cache.  (Stated as the claim; the code violates it.)             *)
(***************************************************************************)
BulkEnvelopeForm ==
    (req.route = "bulk" /\ resp.status = 200) =>
        \A s \in DOMAIN resp.body :
            IsEnvelope(resp.body[s]) => "error" \notin DOMAIN resp.body[s].chart

(***************************************************************************)
(* C14  /api/nifty-data behaves exactly as the single-symbol request for   *)
(* "^NSEI": the request of either route looks up the one cache entry keyed *)
(* "^NSEI" and, from the same state and the same upstream result, gives    *)
(* the same response (200 envelope, 404 or 500) and the same cache change. *)
(***************************************************************************)
\* what a request for symbol does on entry, whatever its route
EntryOutcome(symbol) ==
    /\ LookedUp = symbol
    /\ cache' = cache
    /\ IF CacheHit(symbol)
       THEN resp' = Respond(200, cache[symbol].data) /\ fetched' = <<>>
       ELSE resp' = NoResp /\ fetched' = <<symbol>>

\* what a request for symbol does when its fetch returns, whatever its route
FetchOutcome(symbol) ==
    LET up == trace'[1].up
    IN  IF up.kind = "raise"
        THEN resp' = SingleError(symbol, up.detail) /\ cache' = cache
        ELSE IF up.hist = <<>>
        THEN resp' = SingleNotFound(symbol) /\ cache' = cache
        ELSE /\ resp' = Respond(200, SingleEnvelope(symbol, up.info, up.hist))
             /\ cache' = CachePut(symbol, resp'.body)

NiftyAsSingle ==
    /\ [](req.route = "nifty" => req.arg = NIFTY)
    /\ [][ (req'.route \in SinglePath /\ req'.arg = NIFTY) =>
               /\ RequestStep => EntryOutcome(NIFTY)
               /\ FetchReturnStep => FetchOutcome(NIFTY) ]_vars

\* a nifty request is served from the entry that a single request for "^NSEI" wrote
NiftyAsSingleWitness ==
    /\ req.route = "nifty"
    /\ resp.status = 200
    /\ trace = <<[sym |-> NIFTY, up |-> NoFetch]>>
    /\ nreq = 2
    /\ DOMAIN cache = {NIFTY}
    /\ resp.body = cache[NIFTY].data

(***************************************************************************)
(* C16  The cache is written only when a fetch succeeds: a lookup that     *)
(* ends in an error outcome (the fetch raises, the history is empty, or    *)
(* the bulk request is rejected with 400) leaves the cache exactly as it   *)
(* was; an expired entry therefore stays with its data and timestamp, is   *)
(* counted by cache_size, and a lookup of its symbol is not served from it *)
(* but calls the upstream.                                                 *)
(***************************************************************************)
\* the upstream result of the fetch that returns in this step
Returned == trace'[Len(trace')].up

FetchFailed == Returned.kind = "raise" \/ Returned.hist = <<>>

ErrorLeavesCache ==
    [][ /\ (FetchReturnStep /\ FetchFailed) => cache' = cache
        /\ (RequestStep /\ resp'.status = 400) => cache' = cache
        /\ cache' # cache => (FetchReturnStep /\ ~FetchFailed)
        /\ (RequestStep /\ req'.route = "health") =>
               resp'.body.cache_size = Cardinality(DOMAIN cache)
        /\ (LookupStep /\ LookedUp \in DOMAIN cache /\ ~Fresh(LookedUp)) =>
               /\ h'.pc = "fetch"
               /\ fetched' # <<>>
               /\ fetched'[Len(fetched')] = LookedUp ]_vars

\* the refresh of the expired entry of A failed with 500; the entry of second 0 is still there
ErrorLeavesCacheWitness ==
    /\ req.route = "single"
    /\ req.arg = "A"
    /\ resp.status = 500
    /\ "A" \in DOMAIN cache
    /\ cache["A"].timestamp = 0
    /\ now = CACHE_DURATION
    /\ IsEnvelope(cache["A"].data)

(***************************************************************************)
(* C17  Symbols are validated as non-empty: the upstream is never invoked  *)
(* with the empty string as symbol, and the empty string is never a key of *)
(* the cache or of a bulk result mapping, also for parameters such as ",", *)
(* "A," or blanks only.  (Stated as the claim; the code violates it.)      *)
(***************************************************************************)
NoEmptySymbol ==
    /\ "" \notin Range(fetched)
    /\ "" \notin DOMAIN cache
    /\ "" \notin DOMAIN h.results
    /\ (req.route = "bulk" /\ resp.status = 200) => "" \notin DOMAIN resp.body

(***************************************************************************)
(* C15  No torn cache read: with handlers interleaved on the shared cache, *)
(* the data a handler returns on a cache hit comes from the entry whose    *)
(* timestamp it checked, not from a later write.  (Stated as the claim;    *)
(* the code violates it.)                                                  *)
(***************************************************************************)
NoTornRead ==
    \A t \in DOMAIN threads :
        (threads[t].pc = "done" /\ threads[t].checked > 0) =>
            threads[t].served = threads[t].checked

(***************************************************************************)
(* C18  The timestamp of the cache entry of a symbol never decreases,      *)
(* under any interleaving of handlers with a non-decreasing clock.         *)
(* (Stated as the claim; the code violates it.)                            *)
(***************************************************************************)
TimestampMonotone ==
    [][ \A S \in DOMAIN cache : cache'[S].timestamp >= cache[S].timestamp ]_vars

====
